---- MODULE Spec2Model ----
(***************************************************************************)
(* Verification model of the slinky oracle's extended-commit-info          *)
(* validator (abci/proposals: ValidateExtendedCommitInfoPrepare and        *)
(* ValidateExtendedCommitInfoProcess) and of the price aggregation rule.   *)
(*                                                                         *)
(* The validator is modelled statement by statement: every collaborator    *)
(* call (supermajority predicate, request-commit lookup, codec Decode,     *)
(* ValidateOracleVoteExtension) is one step and is recorded in `trace`,    *)
(* so that "never decoded" and "fail-fast" are observable facts.           *)
(***************************************************************************)
EXTENDS Integers, Sequences, FiniteSets, TLC

----------------------------------------------------------------------------
(* Bounds                                                                  *)

MaxVotes == 2          \* longest extendedCommitInfo.Votes
MaxLastCommit == 2     \* longest req.ProposedLastCommit.Votes

\* Validator addresses and the heights the consensus engine passes.
Addrs == {1, 2}
Heights == {1, 2}

(* Vote-extension payloads.  Payload 0 is bytes the codec cannot decode;   *)
(* payload k > 0 decodes to a one-entry price map (pair id k -> price).    *)
GarbageBytes == 0
Bytes == 0..2

(* Currency-pair strategies: strategy s maps the pair ids 1..s.            *)
Strategies == 1..2

Nil == "nil"
ErrSupermajority == "ErrSupermajority"
ErrNoVoteInLastCommit == "ErrNoVoteInLastCommit"
ErrDecode == "ErrDecode"
ErrUnknownPair == "ErrUnknownPair"
ErrBadPrice == "ErrBadPrice"
Pending == "pending"

SeqsUpTo(S, n) == UNION {[1..k -> S] : k \in 0..n}

Range(s) == {s[k] : k \in 1..Len(s)}

VARIABLES
    h,                  \* the ProposalHandler: its collaborators
    ctx,                \* consensus state read through sdk.Context
    extendedCommitInfo, \* extendedCommitInfo.Votes
    lastCommit,         \* req.ProposedLastCommit.Votes
    height,             \* height argument (Prepare) / req.Height (Process)
    fn,                 \* entry point being executed
    pc,                 \* position inside the entry point
    i,                  \* index of the vote the loop is at
    requestCommits,     \* the lookup built by the process path
    voteExt,            \* result of the last successful Decode
    err,                \* value returned by the entry point
    trace,              \* collaborator calls made by this invocation
    logs,               \* h.logger.Error emissions of this invocation
    last,               \* the previous completed invocation
    candidates,         \* Aggregate: resolved candidate prices per Ticker
    prices,             \* Aggregate: the returned price map
    aggPc,              \* Aggregate: position of the aggregation call
    marketMap,          \* Aggregate: provider configs per Ticker
    observations,       \* Aggregate: raw price per (provider, off-chain symbol)
    pending,            \* Aggregate: Tickers not yet resolved or failed
    errors,             \* Aggregate: the returned per-pair error map
    poolCache,          \* UniswapV3PriceFetcher.poolCache
    tickers,            \* Fetch: the tickers argument
    fpc,                \* Fetch: position inside the call
    fi,                 \* Fetch: index of the ticker the loop is at
    pools,              \* Fetch: pools, one per ticker
    batchElems,         \* Fetch: batchElems, one per ticker
    resolved,           \* Fetch: resolved prices
    unResolved,         \* Fetch: unResolved error codes
    response,           \* Fetch: the returned PriceResponse
    ftrace,             \* Fetch: calls made by this invocation
    lastGet             \* the last GetPool call and the cache it found

vars == <<h, ctx, extendedCommitInfo, lastCommit, height, fn, pc, i,
          requestCommits, voteExt, err, trace, logs, last,
          candidates, prices, aggPc,
          marketMap, observations, pending, errors,
          poolCache, tickers, fpc, fi, pools, batchElems, resolved,
          unResolved, response, ftrace, lastGet>>

fetchVars == <<poolCache, tickers, fpc, fi, pools, batchElems, resolved,
               unResolved, response, ftrace, lastGet>>

resVars == <<marketMap, observations, pending, errors>>

aggVars == <<candidates, prices, aggPc>>

valVars == <<h, ctx, extendedCommitInfo, lastCommit, height, fn, pc, i,
             requestCommits, voteExt, err, trace, logs, last>>

----------------------------------------------------------------------------
(* Collaborators                                                           *)

EmptyMap == [x \in {} |-> 0]

\* h.validateVoteExtensionsFn(ctx, extendedCommitInfo): a fake that answers
\* as the handler was configured.
validateVoteExtensionsFn(handler, c, eci) == handler.validateVoteExtensionsFn

\* h.voteExtensionCodec.Decode(vote.VoteExtension)
Decode(bz) ==
    IF bz = GarbageBytes THEN [ve |-> EmptyMap, err |-> ErrDecode]
    ELSE [ve |-> [id \in {bz} |-> 5], err |-> Nil]

\* strategy.FromID(ctx, id) succeeds for the ids the strategy maps.
StrategyPairs(strategy, c) == (1..strategy) \cap c.pairs

\* ve.ValidateOracleVoteExtension(ctx, voteExt, strategy)
ValidateOracleVoteExtension(c, ve, strategy) ==
    IF \E id \in DOMAIN ve : id \notin StrategyPairs(strategy, c)
    THEN ErrUnknownPair
    ELSE IF \E id \in DOMAIN ve : ve[id] < 0
    THEN ErrBadPrice
    ELSE Nil

----------------------------------------------------------------------------
(* The two entry points                                                    *)

Votes == [Address : Addrs, VoteExtension : Bytes]
LastCommitVotes == [Address : Addrs]

NoCall == [fn |-> "none", height |-> 0, err |-> Pending]

InitValidator ==
    /\ h \in [currencyPairStrategy : Strategies,
              validateVoteExtensionsFn : {Nil, ErrSupermajority}]
    /\ ctx = [pairs |-> {1, 2}]
    /\ extendedCommitInfo \in SeqsUpTo(Votes, MaxVotes)
    /\ lastCommit \in SeqsUpTo(LastCommitVotes, MaxLastCommit)
    /\ height = 0
    /\ fn = "none"
    /\ pc = "idle"
    /\ i = 0
    /\ requestCommits = EmptyMap
    /\ voteExt = EmptyMap
    /\ err = Pending
    /\ trace = <<>>
    /\ logs = <<>>
    /\ last = NoCall

NoGet == [ticker |-> Nil, pool |-> Nil, err |-> Pending,
          before |-> EmptyMap, unmarshalled |-> FALSE]

\* The price fetcher is not running.
FetcherOff ==
    /\ poolCache = EmptyMap
    /\ tickers = <<>>
    /\ fpc = "off"
    /\ fi = 0
    /\ pools = <<>>
    /\ batchElems = <<>>
    /\ resolved = EmptyMap
    /\ unResolved = EmptyMap
    /\ response = Pending
    /\ ftrace = <<>>
    /\ lastGet = NoGet

\* The aggregation engine is not running.
AggregatorOff ==
    /\ candidates = EmptyMap
    /\ prices = EmptyMap
    /\ aggPc = "off"
    /\ marketMap = EmptyMap
    /\ observations = EmptyMap
    /\ pending = {}
    /\ errors = EmptyMap

Init == InitValidator /\ AggregatorOff /\ FetcherOff

\* Entering an entry point with its arguments bound.
Enter(name, hgt) ==
    /\ pc = "idle"
    /\ fn' = name
    /\ height' = hgt
    /\ pc' = "supermajority"
    /\ i' = 0
    /\ requestCommits' = EmptyMap
    /\ voteExt' = EmptyMap
    /\ err' = Pending
    /\ trace' = <<>>
    /\ logs' = <<>>
    /\ UNCHANGED <<h, ctx, extendedCommitInfo, lastCommit, last>>
    /\ UNCHANGED aggVars
    /\ UNCHANGED resVars
    /\ UNCHANGED fetchVars

CallPrepare == \E hgt \in Heights : Enter("Prepare", hgt)

CallProcess == \E hgt \in Heights : Enter("Process", hgt)

\* A control record: where the entry point goes next and what it returns.
Goto(p, idx) == [pc |-> p, err |-> Pending, i |-> idx]

\* `return e`
ReturnErr(e, idx) == [pc |-> "done", err |-> e, i |-> idx]

\* Mutant: the loop bound is off by one and the last vote is never visited.
LoopHead_SkipsLast(name, idx, n) ==
    IF idx >= n THEN ReturnErr(Nil, idx)
    ELSE IF name = "Process" THEN Goto("lookup", idx)
    ELSE Goto("decode", idx)

\* Mutant: the process path decodes without the cross-reference lookup.
LoopHead_DecodeFirst(name, idx, n) ==
    IF idx > n THEN ReturnErr(Nil, idx) ELSE Goto("decode", idx)

\* Mutant: a commit info without votes is refused.
LoopHead_EmptyIsError(name, idx, n) ==
    IF n = 0 THEN ReturnErr(ErrSupermajority, idx)
    ELSE IF idx > n THEN ReturnErr(Nil, idx)
    ELSE IF name = "Process" THEN Goto("lookup", idx)
    ELSE Goto("decode", idx)

\* Head of `for _, vote := range extendedCommitInfo.Votes` at index idx of
\* n votes; falling out of the loop reaches `return nil`.
LoopHead(name, idx, n) ==
    IF idx > n THEN ReturnErr(Nil, idx)
    ELSE IF name = "Process" THEN Goto("lookup", idx)
    ELSE Goto("decode", idx)

\* Mutant: the predicate's error is logged but the `return err` is missing.
OnSupermajority_NoReturn(name, e, n) ==
    IF name = "Process" THEN Goto("build", 0)
    ELSE LoopHead(name, 1, n)

\* Mutant: a height validated by the previous call is not validated again.
OnSupermajority_CachedHeight(name, e, n) ==
    IF e # Nil THEN ReturnErr(e, 0)
    ELSE IF last.fn = name /\ last.height = height THEN ReturnErr(Nil, 0)
    ELSE IF name = "Process" THEN Goto("build", 0)
    ELSE LoopHead(name, 1, n)

\* if err := h.validateVoteExtensionsFn(...); err != nil { ...; return err }
OnSupermajority(name, e, n) ==
    IF e # Nil THEN ReturnErr(e, 0)
    ELSE IF name = "Process" THEN Goto("build", 0)
    ELSE LoopHead(name, 1, n)

\* Mutant: a missing validator is logged but validation goes on.
OnLookup_NoReturn(found, idx) == Goto("decode", idx)

\* if !found { ...; return fmt.Errorf("no vote for validator ...") }
OnLookup(found, idx) ==
    IF ~found THEN ReturnErr(ErrNoVoteInLastCommit, idx)
    ELSE Goto("decode", idx)

\* Mutant: an undecodable vote is skipped (`continue`) instead of aborting.
OnDecode_Continue(e, idx) ==
    IF e # Nil THEN LoopHead(fn, idx + 1, Len(extendedCommitInfo))
    ELSE Goto("validate", idx)

\* if err != nil { return err }
OnDecode(e, idx) ==
    IF e # Nil THEN ReturnErr(e, idx)
    ELSE Goto("validate", idx)

\* Mutant: only the last vote's validation error is returned.
OnValidate_LastOnly(name, e, idx, n) ==
    IF e # Nil /\ idx = n THEN ReturnErr(e, idx)
    ELSE LoopHead(name, idx + 1, n)

\* if err := ve.ValidateOracleVoteExtension(...); err != nil { ...; return err }
OnValidate(name, e, idx, n) ==
    IF e # Nil THEN ReturnErr(e, idx)
    ELSE LoopHead(name, idx + 1, n)

Jump(c) ==
    /\ pc' = c.pc
    /\ err' = c.err
    /\ i' = c.i

Call(op, idx, s) == [op |-> op, idx |-> idx, strategy |-> s]

LogError(cond, msg) ==
    logs' = IF cond THEN Append(logs, [msg |-> msg, height |-> height]) ELSE logs

CheckSupermajority ==
    /\ pc = "supermajority"
    /\ LET e == validateVoteExtensionsFn(h, ctx, extendedCommitInfo) IN
       /\ trace' = Append(trace, Call("Supermajority", 0, 0))
       /\ LogError(e # Nil, "failed to validate vote extensions")
       /\ Jump(OnSupermajority(fn, e, Len(extendedCommitInfo)))
    /\ UNCHANGED <<h, ctx, extendedCommitInfo, lastCommit, height, fn,
                   requestCommits, voteExt, last>>
    /\ UNCHANGED aggVars
    /\ UNCHANGED resVars
    /\ UNCHANGED fetchVars

\* Mutant: the map is filled from the first len(extendedCommitInfo.Votes)
\* entries of the last commit only (the capacity taken for a length).
BuildMap_Truncated(lc) ==
    LET m == IF Len(extendedCommitInfo) < Len(lc)
             THEN Len(extendedCommitInfo) ELSE Len(lc)
    IN  [a \in {lc[k].Address : k \in 1..m} |->
            LET ks == {k \in 1..m : lc[k].Address = a}
            IN  lc[CHOOSE k \in ks : \A k2 \in ks : k2 <= k]]

\* requestCommits[string(vote.Validator.Address)] = vote, later entries
\* overwriting earlier ones.
BuildMap(lc) ==
    [a \in {lc[k].Address : k \in 1..Len(lc)} |->
        LET ks == {k \in 1..Len(lc) : lc[k].Address = a}
        IN  lc[CHOOSE k \in ks : \A k2 \in ks : k2 <= k]]

BuildRequestCommits ==
    /\ pc = "build"
    /\ requestCommits' = BuildMap(lastCommit)
    /\ Jump(LoopHead(fn, 1, Len(extendedCommitInfo)))
    /\ UNCHANGED <<h, ctx, extendedCommitInfo, lastCommit, height, fn,
                   voteExt, trace, logs, last>>
    /\ UNCHANGED aggVars
    /\ UNCHANGED resVars
    /\ UNCHANGED fetchVars

\* Mutant: only a last-commit entry flagged as a commit counts as found.
Found_CommitFlagOnly(rc, address) ==
    address \in DOMAIN rc /\ rc[address].BlockIdFlag = "commit"

\* reqVote, found := requestCommits[string(address)]; reqVote is not used.
Found(rc, address) == address \in DOMAIN rc

Lookup ==
    /\ pc = "lookup"
    /\ LET found == Found(requestCommits, extendedCommitInfo[i].Address) IN
       /\ trace' = Append(trace, Call("Lookup", i, 0))
       /\ LogError(~found, "no vote for validator in extended commit vote")
       /\ Jump(OnLookup(found, i))
    /\ UNCHANGED <<h, ctx, extendedCommitInfo, lastCommit, height, fn,
                   requestCommits, voteExt, last>>
    /\ UNCHANGED aggVars
    /\ UNCHANGED resVars
    /\ UNCHANGED fetchVars

\* voteExt, err := h.voteExtensionCodec.Decode(vote.VoteExtension)
DecodeVote ==
    /\ pc = "decode"
    /\ LET r == Decode(extendedCommitInfo[i].VoteExtension) IN
       /\ trace' = Append(trace, Call("Decode", i, 0))
       /\ voteExt' = r.ve
       /\ Jump(OnDecode(r.err, i))
    /\ UNCHANGED <<h, ctx, extendedCommitInfo, lastCommit, height, fn,
                   requestCommits, logs, last>>
    /\ UNCHANGED aggVars
    /\ UNCHANGED resVars
    /\ UNCHANGED fetchVars

\* Mutant: the strategy version is looked up by the height argument.
StrategyUsed_ByHeight(handler, hgt) == hgt

\* The strategy handed to ValidateOracleVoteExtension.
StrategyUsed(handler, hgt) == handler.currencyPairStrategy

\* ve.ValidateOracleVoteExtension(ctx, voteExt, h.currencyPairStrategy)
ValidateVote ==
    /\ pc = "validate"
    /\ LET s == StrategyUsed(h, height)
           e == ValidateOracleVoteExtension(ctx, voteExt, s)
       IN
       /\ trace' = Append(trace, Call("Validate", i, s))
       /\ LogError(e # Nil, "failed to validate oracle vote extension")
       /\ Jump(OnValidate(fn, e, i, Len(extendedCommitInfo)))
    /\ UNCHANGED <<h, ctx, extendedCommitInfo, lastCommit, height, fn,
                   requestCommits, voteExt, last>>
    /\ UNCHANGED aggVars
    /\ UNCHANGED resVars
    /\ UNCHANGED fetchVars

\* The caller receives the error; the handler is ready for the next call.
Return ==
    /\ pc = "done"
    /\ last' = [fn |-> fn, height |-> height, err |-> err]
    /\ pc' = "idle"
    /\ UNCHANGED <<h, ctx, extendedCommitInfo, lastCommit, height, fn, i,
                   requestCommits, voteExt, err, trace, logs>>
    /\ UNCHANGED aggVars
    /\ UNCHANGED resVars
    /\ UNCHANGED fetchVars

Next ==
    \/ CallPrepare
    \/ CallProcess
    \/ CheckSupermajority
    \/ BuildRequestCommits
    \/ Lookup
    \/ DecodeVote
    \/ ValidateVote
    \/ Return

Spec == Init /\ [][Next]_vars

\* The process path alone, over last-commit entries that carry, besides
\* the validator address, the block id flag of cometabci.VoteInfo.
BlockIdFlags == {"absent", "commit"}

FlaggedLastCommitVotes == [Address : Addrs, BlockIdFlag : BlockIdFlags]

InitCrossRef ==
    /\ h \in [currencyPairStrategy : Strategies, validateVoteExtensionsFn : {Nil}]
    /\ ctx = [pairs |-> {1, 2}]
    /\ extendedCommitInfo \in SeqsUpTo(Votes, MaxVotes)
    /\ lastCommit \in SeqsUpTo(FlaggedLastCommitVotes, MaxLastCommit)
    /\ height = 0
    /\ fn = "none"
    /\ pc = "idle"
    /\ i = 0
    /\ requestCommits = EmptyMap
    /\ voteExt = EmptyMap
    /\ err = Pending
    /\ trace = <<>>
    /\ logs = <<>>
    /\ last = NoCall
    /\ AggregatorOff
    /\ FetcherOff

NextCrossRef ==
    \/ CallProcess
    \/ CheckSupermajority
    \/ BuildRequestCommits
    \/ Lookup
    \/ DecodeVote
    \/ ValidateVote
    \/ Return

SpecCrossRef == InitCrossRef /\ [][NextCrossRef]_vars

----------------------------------------------------------------------------
(* The price aggregation engine: the combination step of Aggregate          *)

MaxCandidates == 3     \* most resolved candidates per Ticker

\* Tickers of the test market map and their MinProviderCount.
BTC_USD == "BTC/USD"
USDT_USD == "USDT/USD"
Tickers == {BTC_USD, USDT_USD}

ETH_USD == "ETH/USD"
BTC_USDT == "BTC/USDT"

BTC_USD_MinProviderCount == 3
USDT_USD_MinProviderCount == 2
ETH_USD_MinProviderCount == 3
BTC_USDT_MinProviderCount == 1

MinProviderCount(t) ==
    IF t = BTC_USD THEN BTC_USD_MinProviderCount
    ELSE IF t = USDT_USD THEN USDT_USD_MinProviderCount
    ELSE IF t = ETH_USD THEN ETH_USD_MinProviderCount
    ELSE BTC_USDT_MinProviderCount

\* Candidate prices (ScaledPrice, never negative), one of them an outlier.
CandidatePrices == {100, 101, 102, 1000000}

\* Insertion of x into the ascending sequence s.
RECURSIVE Insert(_, _)
Insert(x, s) ==
    IF s = <<>> THEN <<x>>
    ELSE IF x <= Head(s) THEN <<x>> \o s
    ELSE <<Head(s)>> \o Insert(x, Tail(s))

RECURSIVE Sort(_)
Sort(s) == IF s = <<>> THEN <<>> ELSE Insert(Head(s), Sort(Tail(s)))

\* Rounding half of a non-negative integer sum, half away from zero.
HalfRounded(sum) == (sum + 1) \div 2

\* Mutant: the middle element is taken without sorting the candidates.
Median_Unsorted(cs) ==
    LET n == Len(cs) IN
    IF n % 2 = 1 THEN cs[(n + 1) \div 2]
    ELSE HalfRounded(cs[n \div 2] + cs[n \div 2 + 1])

\* The median of a non-empty candidate list: the middle value, or for an
\* even count the average of the two middle values.
Median(cs) ==
    LET sorted == Sort(cs)
        n == Len(cs)
    IN  IF n % 2 = 1 THEN sorted[(n + 1) \div 2]
        ELSE HalfRounded(sorted[n \div 2] + sorted[n \div 2 + 1])

\* Mutant: a Ticker without enough candidates is given the zero price.
Combine_DefaultZero(cands) ==
    [t \in DOMAIN cands |->
        IF Len(cands[t]) >= MinProviderCount(t) THEN Median(cands[t]) ELSE 0]

\* The combination step: a Ticker with fewer than MinProviderCount
\* candidates has no price; the others get the median of their candidates.
Combine(cands) ==
    [t \in {t \in DOMAIN cands : Len(cands[t]) >= MinProviderCount(t)} |->
        Median(cands[t])]

\* The validator is not running.
ValidatorOff ==
    /\ h = [currencyPairStrategy |-> 1, validateVoteExtensionsFn |-> Nil]
    /\ ctx = [pairs |-> {1, 2}]
    /\ extendedCommitInfo = <<>>
    /\ lastCommit = <<>>
    /\ height = 0
    /\ fn = "none"
    /\ pc = "off"
    /\ i = 0
    /\ requestCommits = EmptyMap
    /\ voteExt = EmptyMap
    /\ err = Pending
    /\ trace = <<>>
    /\ logs = <<>>
    /\ last = NoCall

InitAggregate ==
    /\ ValidatorOff
    /\ FetcherOff
    /\ candidates \in [Tickers -> SeqsUpTo(CandidatePrices, MaxCandidates)]
    /\ prices = EmptyMap
    /\ aggPc = "ready"
    /\ marketMap = EmptyMap
    /\ observations = EmptyMap
    /\ pending = {}
    /\ errors = EmptyMap

\* Aggregate(marketMap, observations), from the resolved candidates on.
Aggregate ==
    /\ aggPc = "ready"
    /\ prices' = Combine(candidates)
    /\ aggPc' = "done"
    /\ UNCHANGED candidates
    /\ UNCHANGED resVars
    /\ UNCHANGED fetchVars
    /\ UNCHANGED valVars

NextAggregate == Aggregate

SpecAggregate == InitAggregate /\ [][NextAggregate]_vars

----------------------------------------------------------------------------
(* The price aggregation engine: the resolution pass of Aggregate           *)

NoPair == "nil"

ProviderConfig(name, sym, norm, inv) ==
    [Name |-> name, OffChainTicker |-> sym, NormalizeByPair |-> norm,
     Invert |-> inv]

\* The test market map: BTC/USD and ETH/USD normalize by USDT/USD, and the
\* kucoin provider of USDT/USD normalizes by BTC/USD.
TestMarketMap ==
    [t \in {BTC_USD, BTC_USDT, USDT_USD, ETH_USD} |->
        IF t = BTC_USD THEN
            << ProviderConfig("coinbase", "btc-usd", NoPair, FALSE),
               ProviderConfig("binance", "btc-usdt", USDT_USD, FALSE),
               ProviderConfig("okx", "btc-usdt", USDT_USD, FALSE) >>
        ELSE IF t = BTC_USDT THEN
            << ProviderConfig("coinbase", "btc-usdt", NoPair, FALSE),
               ProviderConfig("binance", "btc-usdt", NoPair, FALSE),
               ProviderConfig("kucoin", "btc-usdt", NoPair, FALSE) >>
        ELSE IF t = USDT_USD THEN
            << ProviderConfig("coinbase", "usdt-usd", NoPair, FALSE),
               ProviderConfig("binance", "usdt-usd", NoPair, FALSE),
               ProviderConfig("kucoin", "btc-usdt", BTC_USD, TRUE) >>
        ELSE
            << ProviderConfig("coinbase", "eth-usd", NoPair, FALSE),
               ProviderConfig("coinbase", "eth-usdt", USDT_USD, FALSE),
               ProviderConfig("binance", "eth-usdt", USDT_USD, FALSE) >>]

MarketTickers == DOMAIN TestMarketMap

Providers == {"coinbase", "binance", "okx", "kucoin"}

\* Prices are scaled by ScaledOne.
ScaledOne == 10

RawPrice(sym) ==
    IF sym \in {"btc-usd", "btc-usdt"} THEN 500
    ELSE IF sym \in {"eth-usd", "eth-usdt"} THEN 30
    ELSE 10

\* Market maps that keep, of every Ticker, a non-empty prefix of the test
\* market map's provider configs.
MarketMaps ==
    {[t \in MarketTickers |-> SubSeq(TestMarketMap[t], 1, len[t])] :
        len \in [MarketTickers -> 1..3]}

\* The observations of a round in which the providers in up report.
ObservationsOf(up) ==
    LET keys == {<<TestMarketMap[t][k].Name, TestMarketMap[t][k].OffChainTicker>> :
                    t \in MarketTickers, k \in 1..3}
    IN  [key \in {x \in keys : x[1] \in up} |-> RawPrice(key[2])]

\* The Tickers a Ticker's provider configs normalize by.
Deps(mm, t) ==
    {mm[t][k].NormalizeByPair : k \in 1..Len(mm[t])} \ {NoPair}

\* Division rounding half away from zero, of non-negative integers.
RoundDiv(num, den) == (2 * num + den) \div (2 * den)

\* The candidate of one provider config: the raw price, reciprocated if
\* `invert`, multiplied by the resolved price of the normalization pair.
Candidate(cfg, raw, index) ==
    LET num == (IF cfg.Invert THEN ScaledOne * ScaledOne ELSE raw)
                   * (IF cfg.NormalizeByPair = NoPair THEN ScaledOne ELSE index)
        den == (IF cfg.Invert THEN raw ELSE 1) * ScaledOne
    IN  RoundDiv(num, den)

\* A provider config contributes when its observation exists and its
\* normalization pair, if any, has a resolved price.
Usable(cfg, obs, indexPrices) ==
    /\ <<cfg.Name, cfg.OffChainTicker>> \in DOMAIN obs
    /\ obs[<<cfg.Name, cfg.OffChainTicker>>] > 0
    /\ cfg.NormalizeByPair = NoPair \/ cfg.NormalizeByPair \in DOMAIN indexPrices

RECURSIVE CandidatesOf(_, _, _)
CandidatesOf(cfgs, obs, indexPrices) ==
    IF cfgs = <<>> THEN <<>>
    ELSE LET cfg == Head(cfgs)
             rest == CandidatesOf(Tail(cfgs), obs, indexPrices)
         IN  IF Usable(cfg, obs, indexPrices)
             THEN <<Candidate(cfg, obs[<<cfg.Name, cfg.OffChainTicker>>],
                              IF cfg.NormalizeByPair = NoPair THEN ScaledOne
                              ELSE indexPrices[cfg.NormalizeByPair])>> \o rest
             ELSE rest

\* The Tickers reachable from the Tickers in `from` along normalization
\* dependencies that stay inside `within`.
RECURSIVE ReachableFrom(_, _, _)
ReachableFrom(mm, from, within) ==
    LET next == from \cup {u \in within : \E t \in from : u \in Deps(mm, t)}
    IN  IF next = from THEN from ELSE ReachableFrom(mm, next, within)

ErrCycle == "ErrNormalizationCycle"
ErrInsufficient == "ErrInsufficientProviders"

\* Mutant: every Ticker still unresolved when a cycle is met is reported.
CycleMembers_AllStuck(mm, stuck) == stuck

\* The Tickers of `stuck` that lie on a dependency cycle.
CycleMembers(mm, stuck) ==
    {t \in stuck : t \in ReachableFrom(mm, Deps(mm, t) \cap stuck, stuck)}

\* The Tickers whose normalization pairs are all resolved or failed.
Ready(mm, pend) == {t \in pend : Deps(mm, t) \cap pend = {}}

Extend(f, k, v) == [x \in DOMAIN f \cup {k} |-> IF x = k THEN v ELSE f[x]]

InitResolve ==
    /\ ValidatorOff
    /\ FetcherOff
    /\ marketMap \in MarketMaps
    /\ \E up \in SUBSET Providers : observations = ObservationsOf(up)
    /\ pending = MarketTickers
    /\ candidates = EmptyMap
    /\ prices = EmptyMap
    /\ errors = EmptyMap
    /\ aggPc = "resolving"

\* Resolution and combination of one Ticker whose dependencies are settled.
ResolveTicker ==
    /\ aggPc = "resolving"
    /\ \E t \in Ready(marketMap, pending) :
          LET cs == CandidatesOf(marketMap[t], observations, prices) IN
          /\ candidates' = Extend(candidates, t, cs)
          /\ IF Len(cs) >= MinProviderCount(t)
             THEN /\ prices' = Extend(prices, t, Median(cs))
                  /\ errors' = errors
             ELSE /\ errors' = Extend(errors, t, ErrInsufficient)
                  /\ prices' = prices
          /\ pending' = pending \ {t}
    /\ UNCHANGED <<aggPc, marketMap, observations>>
    /\ UNCHANGED fetchVars
    /\ UNCHANGED valVars

\* No Ticker is ready: the remaining ones are on a cycle or behind one; the
\* cycle is reported for its Tickers and resolution goes on without them.
ReportCycle ==
    /\ aggPc = "resolving"
    /\ pending # {}
    /\ Ready(marketMap, pending) = {}
    /\ LET cyc == CycleMembers(marketMap, pending) IN
       /\ errors' = [t \in DOMAIN errors \cup cyc |->
                        IF t \in cyc THEN ErrCycle ELSE errors[t]]
       /\ pending' = pending \ cyc
    /\ UNCHANGED <<aggPc, marketMap, observations, candidates, prices>>
    /\ UNCHANGED fetchVars
    /\ UNCHANGED valVars

\* Aggregate returns the price map and the error map.
ReturnAggregate ==
    /\ aggPc = "resolving"
    /\ pending = {}
    /\ aggPc' = "done"
    /\ UNCHANGED <<marketMap, observations, pending, errors, candidates, prices>>
    /\ UNCHANGED fetchVars
    /\ UNCHANGED valVars

NextResolve ==
    \/ ResolveTicker
    \/ ReportCycle
    \/ ReturnAggregate

\* Aggregate is a synchronous call: it runs until it returns.
SpecResolve == InitResolve /\ [][NextResolve]_vars /\ WF_vars(NextResolve)

-----------------------------------------------------------------------------
(* UniswapV3PriceFetcher: Fetch and GetPool                                *)

MaxTickers == 2        \* longest tickers argument of Fetch

\* Ticker.Metadata_JSON values: two pool configs, a string that is not
\* JSON, and a JSON object without a pool address.
Metadata == {"pool a", "pool b", "not json", "no address"}

\* mmtypes.Ticker values; the struct, Metadata_JSON included, is the key of
\* poolCache and of the response maps.
FetchTickers == [CurrencyPair : {"WETH/USDC"}, Metadata_JSON : Metadata]

ErrorFailedToDecode == "ErrorFailedToDecode"
ErrorAPIGeneral == "ErrorAPIGeneral"
ErrorUnknown == "ErrorUnknown"
ErrorFailedToParsePrice == "ErrorFailedToParsePrice"
ErrUnmarshal == "failed to unmarshal pool config on ticker"
ErrInvalidPool == "invalid ticker pool config"
ErrRPC == "rpc error"

\* var cfg PoolConfig
ZeroPoolConfig == [Address |-> ""]

\* json.Unmarshal([]byte(ticker.Metadata_JSON), &cfg)
Unmarshal(meta) ==
    IF meta = "not json" THEN [cfg |-> ZeroPoolConfig, err |-> ErrUnmarshal]
    ELSE IF meta = "no address" THEN [cfg |-> ZeroPoolConfig, err |-> Nil]
    ELSE [cfg |-> [Address |-> meta], err |-> Nil]

\* cfg.ValidateBasic()
ValidateBasic(cfg) == IF cfg.Address = "" THEN ErrInvalidPool ELSE Nil

GetPoolResult(pool, e, cache, unmarshalled) ==
    [pool |-> pool, err |-> e, poolCache |-> cache, unmarshalled |-> unmarshalled]

\* Mutant: the config is stored before ValidateBasic has passed.
GetPool_CacheBeforeValidate(cache, ticker) ==
    IF ticker \in DOMAIN cache
    THEN GetPoolResult(cache[ticker], Nil, cache, FALSE)
    ELSE LET u == Unmarshal(ticker.Metadata_JSON) IN
         IF u.err # Nil THEN GetPoolResult(u.cfg, ErrUnmarshal, cache, TRUE)
         ELSE GetPoolResult(u.cfg, ValidateBasic(u.cfg),
                            Extend(cache, ticker, u.cfg), TRUE)

\* func (u *UniswapV3PriceFetcher) GetPool(ticker): the pool and error
\* returned, the cache afterwards, and whether the metadata was unmarshalled.
GetPool(cache, ticker) ==
    IF ticker \in DOMAIN cache
    THEN GetPoolResult(cache[ticker], Nil, cache, FALSE)
    ELSE LET u == Unmarshal(ticker.Metadata_JSON) IN
         IF u.err # Nil THEN GetPoolResult(u.cfg, ErrUnmarshal, cache, TRUE)
         ELSE IF ValidateBasic(u.cfg) # Nil
              THEN GetPoolResult(u.cfg, ErrInvalidPool, cache, TRUE)
              ELSE GetPoolResult(u.cfg, Nil, Extend(cache, ticker, u.cfg), TRUE)

GetRecord(cache, ticker, r) ==
    [ticker |-> ticker, pool |-> r.pool, err |-> r.err,
     before |-> cache, unmarshalled |-> r.unmarshalled]

\* rpc.BatchElem after make([]rpc.BatchElem, len(tickers)): no error, and a
\* result string nothing has been written to.
ZeroBatchElem == [Error |-> Nil, Result |-> ""]

\* What the EVM client can leave in one batch element: an error, a string
\* that is not hex, hex that does not unpack as slot0, or a slot0 value.
BatchResults ==
    {[Error |-> ErrRPC, Result |-> ""],
     [Error |-> Nil, Result |-> "zz"],
     [Error |-> Nil, Result |-> "0x"],
     [Error |-> Nil, Result |-> "0x02"]}

\* ParseSqrtPriceX96(result.Result)
ParseSqrtPriceX96(result) ==
    IF result = "0x02" THEN [sqrtPriceX96 |-> 2, err |-> Nil]
    ELSE [sqrtPriceX96 |-> 0, err |-> "failed to parse"]

\* ConvertSquareRootX96Price followed by ScalePrice and Int(nil).
IntPrice(sqrtPriceX96) == sqrtPriceX96 * sqrtPriceX96

\* types.NewPriceResponseWithErr(tickers, err)
NewPriceResponseWithErr(ts, code) ==
    [Resolved |-> EmptyMap, UnResolved |-> [t \in Range(ts) |-> code]]

\* types.NewPriceResponse(resolved, unResolved)
NewPriceResponse(res, unres) == [Resolved |-> res, UnResolved |-> unres]

\* The fetcher after NewUniswapV3PriceFetcher, no call in progress.
InitFetch ==
    /\ ValidatorOff
    /\ AggregatorOff
    /\ poolCache = EmptyMap
    /\ tickers = <<>>
    /\ fpc = "idle"
    /\ fi = 0
    /\ pools = <<>>
    /\ batchElems = <<>>
    /\ resolved = EmptyMap
    /\ unResolved = EmptyMap
    /\ response = Pending
    /\ ftrace = <<>>
    /\ lastGet = NoGet

\* A call of GetPool from outside Fetch.
CallGetPool ==
    /\ fpc = "idle"
    /\ \E ticker \in FetchTickers :
          LET r == GetPool(poolCache, ticker) IN
          /\ poolCache' = r.poolCache
          /\ lastGet' = GetRecord(poolCache, ticker, r)
    /\ UNCHANGED <<tickers, fpc, fi, pools, batchElems, resolved, unResolved,
                   response, ftrace>>
    /\ UNCHANGED aggVars
    /\ UNCHANGED resVars
    /\ UNCHANGED valVars

\* Head of `for i, ticker := range tickers` at index idx of n; `after` is
\* the statement that follows the loop.
FetchLoop(p, idx, n, after) ==
    IF idx > n THEN [pc |-> after, i |-> idx, code |-> Nil]
    ELSE [pc |-> p, i |-> idx, code |-> Nil]

FetchFail(code, idx) == [pc |-> "done", i |-> idx, code |-> code]

\* Fetch entered: resolved, unResolved, batchElems and pools are made.
CallFetch ==
    /\ fpc = "idle"
    /\ \E ts \in SeqsUpTo(FetchTickers, MaxTickers) :
          /\ tickers' = ts
          /\ batchElems' = [k \in 1..Len(ts) |-> ZeroBatchElem]
          /\ pools' = [k \in 1..Len(ts) |-> ZeroPoolConfig]
          /\ LET c == FetchLoop("getpool", 1, Len(ts), "batch") IN
             fpc' = c.pc /\ fi' = c.i
    /\ resolved' = EmptyMap
    /\ unResolved' = EmptyMap
    /\ response' = Pending
    /\ ftrace' = <<>>
    /\ UNCHANGED <<poolCache, lastGet>>
    /\ UNCHANGED aggVars
    /\ UNCHANGED resVars
    /\ UNCHANGED valVars

\* Mutant: a ticker whose pool cannot be resolved is skipped.
OnGetPool_Continue(e, idx, n) == FetchLoop("getpool", idx + 1, n, "batch")

\* if err != nil { return types.NewPriceResponseWithErr(...) }
OnGetPool(e, idx, n) ==
    IF e # Nil THEN FetchFail(ErrorFailedToDecode, idx)
    ELSE FetchLoop("getpool", idx + 1, n, "batch")

FetchCall(op, idx, e) == [op |-> op, idx |-> idx, err |-> e]

\* pool, err := u.GetPool(ticker) and the batch element of the ticker.
FetchGetPool ==
    /\ fpc = "getpool"
    /\ LET r == GetPool(poolCache, tickers[fi])
           c == OnGetPool(r.err, fi, Len(tickers))
       IN  /\ poolCache' = r.poolCache
           /\ lastGet' = GetRecord(poolCache, tickers[fi], r)
           /\ ftrace' = Append(ftrace, FetchCall("GetPool", fi, r.err))
           /\ fpc' = c.pc
           /\ fi' = c.i
           /\ IF c.pc = "done"
              THEN /\ response' = NewPriceResponseWithErr(tickers, c.code)
                   /\ UNCHANGED pools
              ELSE /\ response' = response
                   /\ pools' = IF r.err = Nil THEN [pools EXCEPT ![fi] = r.pool]
                               ELSE pools
    /\ UNCHANGED <<tickers, batchElems, resolved, unResolved>>
    /\ UNCHANGED aggVars
    /\ UNCHANGED resVars
    /\ UNCHANGED valVars

\* Mutant: the per-element results are parsed although the batch call failed.
OnBatchCall_ParseAnyway(e, n) == FetchLoop("parse", 1, n, "return")

\* if err := u.client.BatchCallContext(ctx, batchElems); err != nil { return }
OnBatchCall(e, n) ==
    IF e # Nil THEN FetchFail(ErrorAPIGeneral, 1)
    ELSE FetchLoop("parse", 1, n, "return")

\* u.client.BatchCallContext(ctx, batchElems): the call fails as a whole, or
\* it fills every element with a result or an error of its own.
BatchCallContext ==
    /\ fpc = "batch"
    /\ \E e \in {Nil, ErrRPC} :
          LET c == OnBatchCall(e, Len(tickers)) IN
          /\ IF e = Nil
             THEN batchElems' \in [1..Len(tickers) -> BatchResults]
             ELSE batchElems' = batchElems
          /\ ftrace' = Append(ftrace, FetchCall("BatchCallContext", 0, e))
          /\ fpc' = c.pc
          /\ fi' = c.i
          /\ response' = IF c.pc = "done"
                         THEN NewPriceResponseWithErr(tickers, c.code)
                         ELSE response
    /\ UNCHANGED <<poolCache, lastGet, tickers, pools, resolved, unResolved>>
    /\ UNCHANGED aggVars
    /\ UNCHANGED resVars
    /\ UNCHANGED valVars

PriceOutcome(ok, code, price) == [ok |-> ok, code |-> code, price |-> price]

\* Mutant: the error of ParseSqrtPriceX96 is discarded.
Outcome_ParseErrorDropped(result) ==
    IF result.Error # Nil THEN PriceOutcome(FALSE, ErrorUnknown, 0)
    ELSE PriceOutcome(TRUE, Nil,
                      IntPrice(ParseSqrtPriceX96(result.Result).sqrtPriceX96))

\* What the body of the parse loop makes of one batch element.
Outcome(result) ==
    IF result.Error # Nil THEN PriceOutcome(FALSE, ErrorUnknown, 0)
    ELSE LET parsed == ParseSqrtPriceX96(result.Result) IN
         IF parsed.err # Nil THEN PriceOutcome(FALSE, ErrorFailedToParsePrice, 0)
         ELSE PriceOutcome(TRUE, Nil, IntPrice(parsed.sqrtPriceX96))

\* One iteration of the loop that parses the result of each ticker.
ParseResult ==
    /\ fpc = "parse"
    /\ LET ticker == tickers[fi]
           o == Outcome(batchElems[fi])
           c == FetchLoop("parse", fi + 1, Len(tickers), "return")
       IN  /\ IF o.ok
              THEN /\ resolved' = Extend(resolved, ticker, o.price)
                   /\ UNCHANGED unResolved
              ELSE /\ unResolved' = Extend(unResolved, ticker, o.code)
                   /\ UNCHANGED resolved
           /\ ftrace' = Append(ftrace, FetchCall("Inspect", fi, batchElems[fi].Error))
           /\ fpc' = c.pc
           /\ fi' = c.i
    /\ UNCHANGED <<poolCache, lastGet, tickers, pools, batchElems, response>>
    /\ UNCHANGED aggVars
    /\ UNCHANGED resVars
    /\ UNCHANGED valVars

\* return types.NewPriceResponse(resolved, unResolved)
FetchReturn ==
    /\ fpc = "return"
    /\ response' = NewPriceResponse(resolved, unResolved)
    /\ fpc' = "done"
    /\ UNCHANGED <<poolCache, lastGet, tickers, fi, pools, batchElems,
                   resolved, unResolved, ftrace>>
    /\ UNCHANGED aggVars
    /\ UNCHANGED resVars
    /\ UNCHANGED valVars

\* The caller has the response; the locals of the call are gone.
FetchDone ==
    /\ fpc = "done"
    /\ fpc' = "idle"
    /\ tickers' = <<>>
    /\ fi' = 0
    /\ pools' = <<>>
    /\ batchElems' = <<>>
    /\ resolved' = EmptyMap
    /\ unResolved' = EmptyMap
    /\ response' = Pending
    /\ ftrace' = <<>>
    /\ UNCHANGED <<poolCache, lastGet>>
    /\ UNCHANGED aggVars
    /\ UNCHANGED resVars
    /\ UNCHANGED valVars

NextFetch ==
    \/ CallGetPool
    \/ CallFetch
    \/ FetchGetPool
    \/ BatchCallContext
    \/ ParseResult
    \/ FetchReturn
    \/ FetchDone

SpecFetch == InitFetch /\ [][NextFetch]_vars

----------------------------------------------------------------------------
(* What the inputs of the current invocation are like                      *)

NumVotes == Len(extendedCommitInfo)

LastCommitAddrs == {lastCommit[k].Address : k \in 1..Len(lastCommit)}

SupermajorityErr == validateVoteExtensionsFn(h, ctx, extendedCommitInfo)

Decodes(k) == Decode(extendedCommitInfo[k].VoteExtension).err = Nil

ValidationErr(k) ==
    ValidateOracleVoteExtension(ctx, Decode(extendedCommitInfo[k].VoteExtension).ve,
                                h.currencyPairStrategy)

WellFormed(k) == Decodes(k) /\ ValidationErr(k) = Nil

InLastCommit(k) == extendedCommitInfo[k].Address \in LastCommitAddrs

Returned == pc = "done"

Ops(name) == {p \in 1..Len(trace) : trace[p].op = name}

----------------------------------------------------------------------------
(* Claims                                                                  *)

\* C1: in both entry points, when the supermajority predicate returns an
\* error, the entry point returns exactly that error and the codec's Decode
\* is not invoked on any vote of the invocation.
C1_SupermajorityErrorAborts ==
    (fn # "none" /\ SupermajorityErr # Nil) =>
        /\ Ops("Decode") = {}
        /\ Returned => err = SupermajorityErr

C1_Witness ==
    /\ Returned /\ fn = "Process" /\ last.fn = "Prepare"
    /\ NumVotes = MaxVotes
    /\ \A k \in 1..NumVotes : WellFormed(k) /\ InLastCommit(k)
    /\ err = ErrSupermajority /\ last.err = ErrSupermajority

\* C2: the process path returns an error whenever some vote's validator
\* address has no entry in req.ProposedLastCommit.Votes, also when the
\* supermajority predicate accepts and every vote decodes and validates.
C2_MissingValidatorRejected ==
    (Returned /\ fn = "Process" /\ \E k \in 1..NumVotes : ~InLastCommit(k))
        => err # Nil

C2_Witness ==
    /\ Returned /\ fn = "Process" /\ SupermajorityErr = Nil
    /\ NumVotes = MaxVotes
    /\ \A k \in 1..NumVotes : WellFormed(k)
    /\ InLastCommit(1) /\ ~InLastCommit(NumVotes)
    /\ err = ErrNoVoteInLastCommit

\* C3: in both entry points, if the codec cannot decode the vote extension
\* of some vote, the validation returns an error, however many other votes
\* are well-formed.
C3_UndecodableVoteRejected ==
    (Returned /\ \E k \in 1..NumVotes : ~Decodes(k)) => err # Nil

C3_Witness ==
    /\ Returned /\ fn = "Prepare" /\ SupermajorityErr = Nil
    /\ NumVotes = MaxVotes
    /\ \A k \in 1..(NumVotes - 1) : WellFormed(k)
    /\ ~Decodes(NumVotes)
    /\ err = ErrDecode

\* C4: in both entry points, if some vote decodes but fails
\* ValidateOracleVoteExtension, the validation returns an error, and when
\* the validator was the call that failed, that error is the one returned.
C4_InvalidVoteRejected ==
    Returned =>
        /\ (\E k \in 1..NumVotes : Decodes(k) /\ ValidationErr(k) # Nil)
              => err # Nil
        /\ \A p \in Ops("Validate") :
              ValidationErr(trace[p].idx) # Nil
                 => err = ValidationErr(trace[p].idx)

C4_Witness ==
    /\ Returned /\ fn = "Process" /\ SupermajorityErr = Nil
    /\ NumVotes = MaxVotes
    /\ \A k \in 1..NumVotes : InLastCommit(k) /\ Decodes(k)
    /\ WellFormed(NumVotes) /\ ValidationErr(1) = ErrUnknownPair
    /\ err = ErrUnknownPair

\* C5: the prepare path returns nil if and only if the supermajority
\* predicate accepts and every vote decodes and passes the oracle vote
\* validator.
C5_PrepareAcceptsIff ==
    (Returned /\ fn = "Prepare") =>
        (err = Nil <=>
            /\ SupermajorityErr = Nil
            /\ \A k \in 1..NumVotes : WellFormed(k))

C5_Witness ==
    /\ Returned /\ fn = "Prepare" /\ err = Nil
    /\ NumVotes = MaxVotes
    /\ Cardinality(Ops("Validate")) = NumVotes

\* C6: on the same extended commit info, the process path returns nil
\* exactly when the prepare path returns nil and every vote's validator
\* address has an entry in req.ProposedLastCommit.Votes.
CrossReferenced == \A k \in 1..NumVotes : InLastCommit(k)

C6_ProcessIsPreparePlusCrossRef ==
    /\ (Returned /\ fn = "Process" /\ last.fn = "Prepare") =>
          (err = Nil <=> (last.err = Nil /\ CrossReferenced))
    /\ (Returned /\ fn = "Prepare" /\ last.fn = "Process") =>
          (last.err = Nil <=> (err = Nil /\ CrossReferenced))

C6_Witness ==
    /\ Returned /\ fn = "Process" /\ last.fn = "Prepare"
    /\ NumVotes = MaxVotes /\ Len(lastCommit) = MaxLastCommit
    /\ extendedCommitInfo[1].Address # extendedCommitInfo[NumVotes].Address
    /\ err = Nil /\ last.err = Nil

\* C7: both entry points are deterministic and free of side effects: no
\* step changes the handler or the consensus state, and an invocation that
\* repeats the previous one (same entry point, same inputs) returns what
\* the previous one returned.
C7_DeterministicAndPure ==
    [][ /\ h' = h
        /\ ctx' = ctx
        /\ extendedCommitInfo' = extendedCommitInfo
        /\ lastCommit' = lastCommit
        /\ (pc' = "done" /\ last.fn = fn' /\ last.height = height')
              => err' = last.err ]_vars

C7_Witness ==
    /\ Returned /\ fn = "Process" /\ last.fn = "Process"
    /\ last.height = height
    /\ NumVotes = MaxVotes
    /\ err = ErrUnknownPair /\ last.err = ErrUnknownPair

\* C8: validation is fail-fast in vote order: a failed check (cross
\* reference, decode or oracle validation) is the last collaborator call of
\* the invocation, the entry point has returned an error right after it,
\* and no vote at a later position was looked up, decoded or validated.
FailedCheck(c) ==
    \/ c.op = "Lookup" /\ ~InLastCommit(c.idx)
    \/ c.op = "Decode" /\ ~Decodes(c.idx)
    \/ c.op = "Validate" /\ ValidationErr(c.idx) # Nil

C8_FailFast ==
    \A p \in 1..Len(trace) :
        FailedCheck(trace[p]) =>
            /\ p = Len(trace)
            /\ pc \in {"done", "idle"}
            /\ err # Nil
            /\ \A q \in 1..Len(trace) : trace[q].idx <= trace[p].idx

C8_Witness ==
    /\ Returned /\ fn = "Process" /\ SupermajorityErr = Nil
    /\ NumVotes = MaxVotes /\ NumVotes > 1
    /\ InLastCommit(1) /\ ~Decodes(1)
    /\ ~InLastCommit(NumVotes) /\ ~Decodes(NumVotes)
    /\ err = ErrDecode
    /\ Len(trace) = 3

\* C9 as stated: in the prepare path each decoded vote is validated with
\* the currency-pair strategy effective at the height argument.
StrategyAtHeight(hgt) == hgt

C9_StrategyOfHeight ==
    fn = "Prepare" =>
        \A p \in Ops("Validate") : trace[p].strategy = StrategyAtHeight(height)

\* C9 amended: in the prepare path each decoded vote is validated with the
\* handler's configured currency-pair strategy; the height argument does
\* not select the strategy, so a prepare call at another height returns
\* what the previous prepare call returned.
C9_StrategyOfHandler ==
    fn = "Prepare" =>
        /\ \A p \in Ops("Validate") : trace[p].strategy = h.currencyPairStrategy
        /\ (Returned /\ last.fn = "Prepare") => err = last.err

C9_Witness ==
    /\ Returned /\ fn = "Prepare" /\ last.fn = "Prepare"
    /\ last.height # height
    /\ h.currencyPairStrategy # StrategyAtHeight(height)
    /\ NumVotes = MaxVotes
    /\ Cardinality(Ops("Validate")) = NumVotes
    /\ \E k \in 1..NumVotes : DOMAIN Decode(extendedCommitInfo[k].VoteExtension).ve = {2}

\* C10: for every Ticker with at least MinProviderCount resolved candidates,
\* Aggregate returns the median of the candidates: the middle value in
\* rank for an odd count, the (rounded) average of the two middle values in
\* rank for an even count; so {100, 102, 1000000} yields 102.
Below(cs, x) == Cardinality({q \in 1..Len(cs) : cs[q] < x})

UpTo(cs, x) == Cardinality({q \in 1..Len(cs) : cs[q] <= x})

\* x is the k-th smallest of cs.
Ranked(cs, k, x) ==
    /\ x \in Range(cs)
    /\ Below(cs, x) <= k - 1
    /\ UpTo(cs, x) >= k

IsMedian(cs, m) ==
    LET n == Len(cs) IN
    IF n % 2 = 1 THEN Ranked(cs, (n + 1) \div 2, m)
    ELSE \E lo, hi \in Range(cs) :
            /\ Ranked(cs, n \div 2, lo)
            /\ Ranked(cs, n \div 2 + 1, hi)
            /\ 2 * m - (lo + hi) \in {0, 1}

C10_MedianOfCandidates ==
    aggPc = "done" =>
        \A t \in Tickers :
            Len(candidates[t]) >= MinProviderCount(t) =>
                /\ t \in DOMAIN prices
                /\ IsMedian(candidates[t], prices[t])
                /\ Range(candidates[t]) = {100, 102, 1000000} /\ Len(candidates[t]) = 3
                      => prices[t] = 102

C10_Witness ==
    /\ aggPc = "done"
    /\ candidates[BTC_USD] = <<1000000, 100, 102>>
    /\ prices[BTC_USD] = 102
    /\ candidates[USDT_USD] = <<101, 100>>
    /\ prices[USDT_USD] = 101

\* C11: a Ticker for which fewer than MinProviderCount providers produced a
\* usable candidate is absent from Aggregate's price map; no price of the
\* map is a zero or default price standing for a missing one.
C11_InsufficientProvidersAbsent ==
    aggPc = "done" =>
        /\ \A t \in Tickers :
              Len(candidates[t]) < MinProviderCount(t) => t \notin DOMAIN prices
        /\ DOMAIN prices \subseteq Tickers
        /\ \A t \in DOMAIN prices : prices[t] > 0

C11_Witness ==
    /\ aggPc = "done"
    /\ Len(candidates[BTC_USD]) = BTC_USD_MinProviderCount - 1
    /\ BTC_USD \notin DOMAIN prices
    /\ Len(candidates[USDT_USD]) = USDT_USD_MinProviderCount
    /\ USDT_USD \in DOMAIN prices

\* C12: a cycle of normalization dependencies (in the test market map,
\* BTC/USD and USDT/USD) is reported as an error for the Tickers on the cycle
\* and for no other Ticker; Aggregate still returns, and every Ticker that
\* does not depend on the cycle gets a price whenever enough of its provider
\* configs are usable.
DependsOn(t, u) ==
    \E path \in SeqsUpTo(MarketTickers, Cardinality(MarketTickers)) :
        /\ Len(path) >= 1
        /\ path[1] \in Deps(marketMap, t)
        /\ path[Len(path)] = u
        /\ \A k \in 1..(Len(path) - 1) : path[k + 1] \in Deps(marketMap, path[k])

OnCycle(t) == DependsOn(t, t)

BehindCycle(t) == \E u \in MarketTickers : OnCycle(u) /\ (u = t \/ DependsOn(t, u))

UsableCount(t) ==
    Cardinality({k \in 1..Len(marketMap[t]) :
                    Usable(marketMap[t][k], observations, prices)})

C12_AtReturn ==
    aggPc = "done" =>
        \A t \in MarketTickers :
            /\ OnCycle(t) => /\ t \in DOMAIN errors
                             /\ errors[t] = ErrCycle
                             /\ t \notin DOMAIN prices
            /\ ~OnCycle(t) => (t \in DOMAIN errors => errors[t] # ErrCycle)
            /\ ~BehindCycle(t) =>
                  (t \in DOMAIN prices <=> UsableCount(t) >= MinProviderCount(t))

CheckRank(op) == IF op = "Lookup" THEN 1 ELSE IF op = "Decode" THEN 2 ELSE 3

Fails(k) == ~InLastCommit(k) \/ ~WellFormed(k)

FirstError(k) ==
    IF ~InLastCommit(k) THEN ErrNoVoteInLastCommit
    ELSE IF ~Decodes(k) THEN ErrDecode
    ELSE ValidationErr(k)

ExpectedProcessErr ==
    IF SupermajorityErr # Nil THEN SupermajorityErr
    ELSE IF \A k \in 1..NumVotes : ~Fails(k) THEN Nil
    ELSE FirstError(CHOOSE k \in 1..NumVotes :
                        Fails(k) /\ \A j \in 1..(k - 1) : ~Fails(j))

C13_ProcessCheckOrder ==
    fn = "Process" =>
        /\ Returned => err = ExpectedProcessErr
        /\ \A p \in Ops("Decode") : InLastCommit(trace[p].idx)
        /\ \A p \in 2..(Len(trace) - 1) :
              \/ /\ trace[p + 1].idx = trace[p].idx
                 /\ CheckRank(trace[p + 1].op) = CheckRank(trace[p].op) + 1
              \/ /\ trace[p + 1].idx = trace[p].idx + 1
                 /\ trace[p].op = "Validate"
                 /\ trace[p + 1].op = "Lookup"

C13_Witness ==
    /\ Returned /\ fn = "Process" /\ SupermajorityErr = Nil
    /\ NumVotes = MaxVotes /\ NumVotes > 1
    /\ \A k \in 1..(NumVotes - 1) : ~Fails(k)
    /\ ~InLastCommit(NumVotes) /\ ~Decodes(NumVotes)
    /\ err = ErrNoVoteInLastCommit
    /\ Cardinality(Ops("Decode")) = NumVotes - 1

\* C14: the cross-reference of the process path is a presence check by
\* validator address in one direction: when every vote's address occurs in
\* req.ProposedLastCommit.Votes the outcome is that of the decode and
\* validate checks alone, whatever further entries, repeated addresses or
\* block id flags the last commit has; the cross-reference error is
\* returned only for a vote whose address does not occur there.
C14_PresenceCheckByAddress ==
    (Returned /\ fn = "Process" /\ SupermajorityErr = Nil) =>
        /\ CrossReferenced => (err = Nil <=> \A k \in 1..NumVotes : WellFormed(k))
        /\ err = ErrNoVoteInLastCommit <=>
              \E k \in 1..NumVotes :
                  /\ ~InLastCommit(k)
                  /\ \A j \in 1..(k - 1) : ~Fails(j)

C14_Witness ==
    /\ Returned /\ fn = "Process" /\ SupermajorityErr = Nil
    /\ NumVotes = MaxVotes /\ NumVotes > 1
    /\ \A k \in 1..NumVotes : extendedCommitInfo[k].Address = 1
    /\ Len(lastCommit) = MaxLastCommit
    /\ lastCommit[1] = [Address |-> 2, BlockIdFlag |-> "commit"]
    /\ lastCommit[Len(lastCommit)] = [Address |-> 1, BlockIdFlag |-> "absent"]
    /\ err = Nil

\* C15: when the extended commit info has no votes, both entry points
\* return exactly what the supermajority predicate returns, and neither the
\* lookup nor the codec nor the oracle vote validator is called.
C15_NoVotesIsPredicateResult ==
    (Returned /\ NumVotes = 0) =>
        /\ err = SupermajorityErr
        /\ \A p \in 1..Len(trace) : trace[p].op = "Supermajority"

C15_Witness ==
    /\ Returned /\ NumVotes = 0
    /\ fn = "Process" /\ last.fn = "Prepare"
    /\ Len(lastCommit) > 0
    /\ err = Nil /\ last.err = Nil

\* What the current Fetch call was given and has done so far.
PoolErr(ticker) == GetPool(EmptyMap, ticker).err

FetchOps(name) == {p \in 1..Len(ftrace) : ftrace[p].op = name}

FetchReturned == fpc = "done"

BatchSucceeded ==
    \E p \in FetchOps("BatchCallContext") : ftrace[p].err = Nil

BatchFailed ==
    \E p \in FetchOps("BatchCallContext") : ftrace[p].err # Nil

Unusable(elem) ==
    elem.Error # Nil \/ ParseSqrtPriceX96(elem.Result).err # Nil

Partitioned ==
    /\ DOMAIN response.Resolved \cup DOMAIN response.UnResolved = Range(tickers)
    /\ \A k \in 1..Len(tickers) :
          /\ (tickers[k] \in DOMAIN response.Resolved)
                # (tickers[k] \in DOMAIN response.UnResolved)
          /\ tickers[k] \in DOMAIN response.UnResolved <=> Unusable(batchElems[k])

Distinct(ts) == \A j, k \in 1..Len(ts) : ts[j] = ts[k] => j = k

\* C16 as stated, for any list of tickers: when every pool config resolves
\* and the batch call succeeds, each requested ticker is in exactly one of
\* the response's maps, the unresolved one exactly when its batch element
\* carries an error or does not parse.
C16_AnyListPartitioned ==
    (FetchReturned /\ BatchSucceeded) => Partitioned

\* C16, amended: for any list of distinct tickers, when every pool config
\* resolves and the batch call succeeds, each requested ticker is in exactly
\* one of the response's maps, the unresolved one exactly when its batch
\* element carries an error or does not parse; none is in both, none missing.
C16_DistinctListPartitioned ==
    (FetchReturned /\ BatchSucceeded /\ Distinct(tickers)) => Partitioned

C16_Witness ==
    /\ FetchReturned /\ BatchSucceeded /\ Distinct(tickers)
    /\ Len(tickers) = MaxTickers /\ Len(tickers) > 1
    /\ DOMAIN response.Resolved # {}
    /\ \E t \in DOMAIN response.UnResolved :
          response.UnResolved[t] = ErrorFailedToParsePrice

\* C17: when GetPool fails for a ticker of the list, Fetch returns an error
\* response that covers every requested ticker, those whose pools resolved
\* included, with no resolved price, and BatchCallContext is never called.
C17_GetPoolFailureFailsAll ==
    (\E k \in 1..Len(tickers) : PoolErr(tickers[k]) # Nil) =>
        /\ FetchOps("BatchCallContext") = {}
        /\ FetchOps("Inspect") = {}
        /\ FetchReturned =>
              /\ response.Resolved = EmptyMap
              /\ DOMAIN response.UnResolved = Range(tickers)
              /\ \A t \in Range(tickers) :
                    response.UnResolved[t] = ErrorFailedToDecode

C17_Witness ==
    /\ FetchReturned
    /\ Len(tickers) = MaxTickers /\ Len(tickers) > 1
    /\ PoolErr(tickers[1]) = Nil
    /\ PoolErr(tickers[Len(tickers)]) = ErrInvalidPool
    /\ tickers[1] \in DOMAIN poolCache
    /\ tickers[1] \in DOMAIN response.UnResolved

\* C18: when the batch call to the EVM client returns an error, Fetch
\* returns an error response for every requested ticker, resolves none, and
\* inspects no per-element result.
C18_BatchErrorFailsAll ==
    BatchFailed =>
        /\ FetchOps("Inspect") = {}
        /\ resolved = EmptyMap /\ unResolved = EmptyMap
        /\ FetchReturned
        /\ response.Resolved = EmptyMap
        /\ DOMAIN response.UnResolved = Range(tickers)
        /\ \A t \in Range(tickers) : response.UnResolved[t] = ErrorAPIGeneral

C18_Witness ==
    /\ FetchReturned /\ BatchFailed
    /\ Len(tickers) = MaxTickers /\ Len(tickers) > 1
    /\ Distinct(tickers)

\* C19: every entry of the pool cache is the config its ticker's metadata
\* unmarshals to and passes ValidateBasic; a GetPool call that fails leaves
\* the cache as it found it; GetPool for a cached ticker returns the cached
\* config without unmarshalling.
C19_CacheHoldsValidConfigs ==
    /\ \A t \in DOMAIN poolCache :
          /\ Unmarshal(t.Metadata_JSON).err = Nil
          /\ poolCache[t] = Unmarshal(t.Metadata_JSON).cfg
          /\ ValidateBasic(poolCache[t]) = Nil
    /\ lastGet # NoGet =>
          /\ lastGet.err # Nil => poolCache = lastGet.before
          /\ lastGet.ticker \in DOMAIN lastGet.before =>
                /\ ~lastGet.unmarshalled
                /\ lastGet.err = Nil
                /\ lastGet.pool = lastGet.before[lastGet.ticker]
                /\ poolCache = lastGet.before

C19_Witness ==
    /\ lastGet # NoGet
    /\ lastGet.ticker \in DOMAIN lastGet.before
    /\ ~lastGet.unmarshalled
    /\ Cardinality(DOMAIN poolCache) > 1
    /\ fpc = "getpool"

====
